---- MODULE Spec2Model ----
(***************************************************************************)
(* A model of the bencode codec of src/src/lib.rs: the value type          *)
(* Bencoded, its Display rendering (the encoder) and the recursive-descent *)
(* decoder parse / parse_bencoded / parse_integer / parse_bytestring /     *)
(* parse_list / parse_dict.                                                *)
(*                                                                         *)
(* Bytes are the integers 0..255.  A buffer is a sequence of bytes; the    *)
(* code's cursor idx is 0-based, so the byte s[idx] of the code is         *)
(* s[idx + 1] here (operator At).                                          *)
(*                                                                         *)
(* isize and usize are 64 bits wide.  A 64-bit word is kept as four 16-bit *)
(* limbs, least significant first, so that the decimal accumulation        *)
(* n * 10 + d of the parsers is computed exactly, overflow included.       *)
(* Arithmetic overflow in Rust depends on the build: with overflow checks  *)
(* (the debug profile) it panics, without them (the release profile) it    *)
(* wraps modulo 2^64.  The variable overflowChecks is the build.           *)
(***************************************************************************)
EXTENDS Integers, Sequences, FiniteSets, TLC

VARIABLES
  overflowChecks, \* the build: TRUE panics on arithmetic overflow, FALSE wraps
  s,              \* the buffer handed to parse
  idx,            \* the cursor of the running parse_* call
  stack,          \* the suspended parse_list / parse_dict calls, innermost last
  pc,             \* where the decoder is: idle, bencoded, list, dict, done, panic
  result,         \* what parse_bencoded(s, 0) returned: [val, idx]
  value,          \* the Bencoded value handed to the encoder
  out,            \* the bytes of the Display rendering
  seed,           \* the hash seed that fixes the HashMap iteration order
  origin,         \* how the buffer s was obtained
  pairs,          \* the (key, value) pairs the buffer s was spelled from
  prev            \* the result of the first decode, kept for the second

vars == <<overflowChecks, s, idx, stack, pc, result, value, out, seed, origin,
          pairs, prev>>

---------------------------------------------------------------------------
(* Bytes the code names. *)

CharI == 105
CharL == 108
CharD == 100
CharE == 101
CharColon == 58
CharMinus == 45
CharZero == 48

(* s[idx] of the code; the caller has checked InBounds. *)
At(buf, i) == buf[i + 1]

InBounds(buf, i) == i >= 0 /\ i < Len(buf)

(* (c as char).to_digit(10): the digit of an ASCII '0'..'9', -1 for None. *)
ToDigit(c) == IF c >= CharZero /\ c <= CharZero + 9 THEN c - CharZero ELSE -1

---------------------------------------------------------------------------
(* 64-bit words as four limbs of 16 bits, least significant first. *)

LimbBase == 65536
SignLimb == 32768

Word(a, b, c, d) == <<a, b, c, d>>

WZero == Word(0, 0, 0, 0)

(* The word of a natural number below LimbBase. *)
FromNat(n) == Word(n, 0, 0, 0)

(* The sign bit of the word read as an isize. *)
IsNeg(x) == x[4] >= SignLimb

(* x * 10 + d on the 64-bit pattern: the low 64 bits and the carry out.
   Signed and unsigned wrapping arithmetic agree on the bits. *)
MulAdd10(x, d) ==
  LET c1 == x[1] * 10 + d
      c2 == x[2] * 10 + (c1 \div LimbBase)
      c3 == x[3] * 10 + (c2 \div LimbBase)
      c4 == x[4] * 10 + (c3 \div LimbBase)
  IN  [w |-> Word(c1 % LimbBase, c2 % LimbBase, c3 % LimbBase, c4 % LimbBase),
       carry |-> c4 \div LimbBase]

(* Whether n * 10 + d, for an isize n >= 0, leaves the range of isize. *)
AccOverflows(x, d) ==
  LET r == MulAdd10(x, d) IN r.carry > 0 \/ IsNeg(r.w)

(* x + y on the 64-bit pattern: the low 64 bits and the carry out. *)
WAdd(x, y) ==
  LET c1 == x[1] + y[1]
      c2 == x[2] + y[2] + (c1 \div LimbBase)
      c3 == x[3] + y[3] + (c2 \div LimbBase)
      c4 == x[4] + y[4] + (c3 \div LimbBase)
  IN  [w |-> Word(c1 % LimbBase, c2 % LimbBase, c3 % LimbBase, c4 % LimbBase),
       carry |-> c4 \div LimbBase]

(* -x in two's complement, wrapping. *)
WNeg(x) ==
  WAdd(Word(LimbBase - 1 - x[1], LimbBase - 1 - x[2],
            LimbBase - 1 - x[3], LimbBase - 1 - x[4]), FromNat(1)).w

(* x divided by 10 as an unsigned word: quotient and remainder. *)
DivMod10(x) ==
  LET t4 == x[4]
      t3 == (t4 % 10) * LimbBase + x[3]
      t2 == (t3 % 10) * LimbBase + x[2]
      t1 == (t2 % 10) * LimbBase + x[1]
  IN  [q |-> Word(t1 \div 10, t2 \div 10, t3 \div 10, t4 \div 10), r |-> t1 % 10]

(* The decimal ASCII digits of an unsigned word, no leading zeros. *)
RECURSIVE U64ToString(_)
U64ToString(x) ==
  LET dm == DivMod10(x)
  IN  IF dm.q = WZero THEN <<CharZero + dm.r>>
      ELSE Append(U64ToString(dm.q), CharZero + dm.r)

(* isize's Display: '-' and the magnitude for a negative number. *)
IsizeToString(n) ==
  IF IsNeg(n) THEN <<CharMinus>> \o U64ToString(WNeg(n)) ELSE U64ToString(n)

(* A usize as the cursor uses it.  Every usize from LimbBase on is kept as
   LimbBase: buffers are shorter, so such a cursor is out of bounds whatever
   its exact value, and the code does no arithmetic on it before indexing. *)
ToIndex(x) == IF x[2] = 0 /\ x[3] = 0 /\ x[4] = 0 THEN x[1] ELSE LimbBase

(* i < len for the loop counter i of `for i in 0..len`, len an isize. *)
CounterBelow(i, len) ==
  /\ ~IsNeg(len)
  /\ (len[2] # 0 \/ len[3] # 0 \/ len[4] # 0 \/ i < len[1])

---------------------------------------------------------------------------
(* enum Bencoded.  The payload of Integer is a 64-bit word, of Bytestring a
   sequence of bytes, of List a sequence of values, of Dict a function from
   keys (sequences of bytes) to values: a HashMap has one entry per key and
   no order of its own. *)

Integer(n) == [tag |-> "Integer", val |-> n]
Bytestring(v) == [tag |-> "Bytestring", val |-> v]
List(v) == [tag |-> "List", val |-> v]
Dict(map) == [tag |-> "Dict", val |-> map]

(* HashMap::new() *)
EmptyMap == [k \in {} |-> WZero]

(* An insert that keeps the value of a key already present. *)
MapInsertKeepsFirst(map, key, val) ==
  [k \in DOMAIN map \cup {key} |-> IF k \in DOMAIN map THEN map[k] ELSE val]

(* map.insert(key, val): a present key keeps one entry, with the new value. *)
MapInsert(map, key, val) ==
  [k \in DOMAIN map \cup {key} |-> IF k = key THEN val ELSE map[k]]

---------------------------------------------------------------------------
(* impl fmt::Display for Bencoded: the encoder. *)

(* String::push(c as char) for a byte c: the char U+0000..U+00FF in UTF-8. *)
PushChar(c) == IF c < 128 THEN <<c>> ELSE <<192 + (c \div 64), 128 + (c % 64)>>

RECURSIVE PushChars(_)
PushChars(v) ==
  IF v = <<>> THEN <<>> ELSE PushChar(Head(v)) \o PushChars(Tail(v))

(* Ord for Vec<u8> (a.cmp(b)): lexicographic by byte value, a proper prefix
   first.  -1 for Less, 0 for Equal, 1 for Greater. *)
RECURSIVE Cmp(_, _)
Cmp(a, b) ==
  IF a = <<>> /\ b = <<>> THEN 0
  ELSE IF a = <<>> THEN -1
  ELSE IF b = <<>> THEN 1
  ELSE IF Head(a) < Head(b) THEN -1
  ELSE IF Head(a) > Head(b) THEN 1
  ELSE Cmp(Tail(a), Tail(b))

(* `for pair in map { v.push(pair) }`: the entries in the map's iteration
   order, which the hash seed fixes and the keys do not.  Every order of the
   entries is the order of some seed sd in 0 .. n! - 1. *)
RECURSIVE IterOrder(_, _, _)
IterOrder(map, keys, sd) ==
  IF keys = {} THEN <<>>
  ELSE LET n == Cardinality(keys)
           k == CHOOSE x \in keys :
                  Cardinality({y \in keys : Cmp(y, x) < 0}) = sd % n
       IN  <<[key |-> k, val |-> map[k]]>> \o IterOrder(map, keys \ {k}, sd \div n)

(* One insertion of a stable sort: x goes before the first entry whose key
   is greater. *)
RECURSIVE SortInsert(_, _)
SortInsert(sorted, x) ==
  IF sorted = <<>> THEN <<x>>
  ELSE IF Cmp(x.key, Head(sorted).key) < 0 THEN <<x>> \o sorted
  ELSE <<Head(sorted)>> \o SortInsert(Tail(sorted), x)

(* The sort left out: the entries stay in iteration order. *)
SortByOmitted(v) == v

(* v.sort_by(|&(a, _), &(b, _)| a.cmp(b)): stable, ascending by key. *)
RECURSIVE SortBy(_)
SortBy(v) ==
  IF v = <<>> THEN <<>>
  ELSE SortInsert(SortBy(SubSeq(v, 1, Len(v) - 1)), v[Len(v)])

(* The Bytestring arm: the length in decimal, ':', then every byte pushed
   as a char. *)
DisplayBytestring(v) ==
  U64ToString(FromNat(Len(v))) \o <<CharColon>> \o PushChars(v)

RECURSIVE Display(_, _)
RECURSIVE DisplayElems(_, _)
RECURSIVE DisplayPairs(_, _)

(* `for elem in v { s.push_str(&elem.to_string()) }` *)
DisplayElems(v, sd) ==
  IF v = <<>> THEN <<>> ELSE Display(Head(v), sd) \o DisplayElems(Tail(v), sd)

(* `for (key, val) in v { s.push_str(&format!("{}{}", Bytestring(key), val)) }` *)
DisplayPairs(v, sd) ==
  IF v = <<>> THEN <<>>
  ELSE DisplayBytestring(Head(v).key) \o Display(Head(v).val, sd)
         \o DisplayPairs(Tail(v), sd)

(* fmt: the bytes written for self; sd is the hash seed of its maps. *)
Display(self, sd) ==
  CASE self.tag = "Integer" ->
         <<CharI>> \o IsizeToString(self.val) \o <<CharE>>
    [] self.tag = "Bytestring" -> DisplayBytestring(self.val)
    [] self.tag = "List" ->
         <<CharL>> \o DisplayElems(self.val, sd) \o <<CharE>>
    [] self.tag = "Dict" ->
         <<CharD>>
           \o DisplayPairs(SortBy(IterOrder(self.val, DOMAIN self.val, sd)), sd)
           \o <<CharE>>

---------------------------------------------------------------------------
(* The leaf parsers.  A call returns [ok, why, val, idx]: ok with the value
   and the cursor after it, or a panic with its cause. *)

Returned(v, i) == [ok |-> TRUE, why |-> "", val |-> v, idx |-> i]

Panicked(why) == [ok |-> FALSE, why |-> why, val |-> Integer(WZero), idx |-> 0]

(* The loop of parse_integer, with the cursor at i and n accumulated. *)
RECURSIVE IntegerLoop(_, _, _, _, _)
IntegerLoop(buf, i, n, negative, chk) ==
  IF ~InBounds(buf, i) THEN Panicked("index out of bounds")
  ELSE IF At(buf, i) = CharE
    THEN Returned(Integer(IF negative THEN WNeg(n) ELSE n), i + 1)
  ELSE IF ToDigit(At(buf, i)) < 0 THEN Panicked("unwrap on None")
  ELSE IF AccOverflows(n, ToDigit(At(buf, i))) /\ chk
    THEN Panicked("arithmetic overflow")
  ELSE IntegerLoop(buf, i + 1, MulAdd10(n, ToDigit(At(buf, i))).w, negative, chk)

(* parse_integer(s, idx) *)
ParseInteger(buf, i, chk) ==
  IF ~InBounds(buf, i) THEN Panicked("index out of bounds")
  ELSE IF At(buf, i) = CharMinus THEN IntegerLoop(buf, i + 1, WZero, TRUE, chk)
  ELSE IntegerLoop(buf, i, WZero, FALSE, chk)

(* `for i in 0..len { v.push(s[idx+i as usize]) }` *)
RECURSIVE CopyLoop(_, _, _, _, _)
CopyLoop(buf, i, len, k, v) ==
  IF ~CounterBelow(k, len) THEN Returned(Bytestring(v), i)
  ELSE IF ~InBounds(buf, i + k) THEN Panicked("index out of bounds")
  ELSE CopyLoop(buf, i, len, k + 1, Append(v, At(buf, i + k)))

(* The end of parse_bytestring, the cursor i after the ':': the copy, then
   `return (Bytestring(v), idx + len as usize)`. *)
BytestringBody(buf, i, len, chk) ==
  LET copy == CopyLoop(buf, i, len, 0, <<>>)
      sum == WAdd(FromNat(i), len)
  IN  IF ~copy.ok THEN copy
      ELSE IF chk /\ sum.carry > 0 THEN Panicked("arithmetic overflow")
      ELSE Returned(copy.val, ToIndex(sum.w))

(* The first loop of parse_bytestring: the length up to the ':'. *)
RECURSIVE LengthLoop(_, _, _, _)
LengthLoop(buf, i, len, chk) ==
  IF ~InBounds(buf, i) THEN Panicked("index out of bounds")
  ELSE IF At(buf, i) = CharColon THEN BytestringBody(buf, i + 1, len, chk)
  ELSE IF ToDigit(At(buf, i)) < 0 THEN Panicked("unwrap on None")
  ELSE IF AccOverflows(len, ToDigit(At(buf, i))) /\ chk
    THEN Panicked("arithmetic overflow")
  ELSE LengthLoop(buf, i + 1, MulAdd10(len, ToDigit(At(buf, i))).w, chk)

(* parse_bytestring(s, idx) *)
ParseBytestring(buf, i, chk) == LengthLoop(buf, i, WZero, chk)

---------------------------------------------------------------------------
(* The bounds of the model. *)

MaxBufLen == 4   \* the longest buffer spelled byte by byte
MaxTail == 1     \* the longest tail put after a decoded prefix
MaxStrLen == 2   \* the longest byte string among the values encoded
MaxItems == 2    \* the most elements of a list, entries of a dict
MaxPairs == 3    \* the most (key, value) pairs spelled into a dictionary
MaxSeed == 5     \* the hash seeds are 0 .. MaxSeed

(* All sequences over S of length at most n. *)
SeqsUpTo(S, n) == UNION {[1..k -> S] : k \in 0..n}

IsizeMax == Word(LimbBase - 1, LimbBase - 1, LimbBase - 1, SignLimb - 1)
IsizeMin == Word(0, 0, 0, SignLimb)

(* The values handed to the encoder. *)
IntSamples == {WZero, FromNat(42), WNeg(FromNat(42)), IsizeMax, IsizeMin}

SampleBytes == {CharE, 255}

Leaves ==
  {Integer(n) : n \in IntSamples}
    \cup {Bytestring(v) : v \in SeqsUpTo(SampleBytes, MaxStrLen)}

KeySamples == {<<>>, <<CharE>>, <<CharE, CharE>>, <<CharE, 255>>, <<255>>}

Elems ==
  { Integer(FromNat(42)),
    Bytestring(<<CharE>>),
    List(<<Integer(WZero)>>),
    Dict([k \in {<<CharE>>, <<>>} |-> Bytestring(k)]) }

(* {"foo": Integer(42), "bar": Bytestring("spam")} *)
Foo == <<102, 111, 111>>
Bar == <<98, 97, 114>>
Spam == <<115, 112, 97, 109>>

ExampleDict ==
  Dict([k \in {Foo, Bar} |->
          IF k = Foo THEN Integer(FromNat(42)) ELSE Bytestring(Spam)])

Values ==
  Leaves
    \cup {ExampleDict}
    \cup {List(v) : v \in SeqsUpTo(Elems, MaxItems)}
    \cup {Dict(m) : m \in UNION {[K -> Elems] :
                      K \in {K \in SUBSET KeySamples : Cardinality(K) <= MaxItems}}}

Seeds == 0..MaxSeed

(* The buffers handed to the decoder byte by byte. *)
RawAlphabet ==
  {CharI, CharL, CharD, CharE, CharColon, CharMinus, CharZero, CharZero + 1, 255}

RawBuffers == SeqsUpTo(RawAlphabet, MaxBufLen)

TailBytes == {CharE, CharZero, 255}

Tails == SeqsUpTo(TailBytes, MaxTail)

(* The ASCII digits of a sequence of digits. *)
Digits(q) == [k \in 1..Len(q) |-> CharZero + q[k]]

(* Length prefixes of twenty digits, past the range of a 64-bit word:
   2^64, 2^64 - 21, 2^64 - 30, 2^64 - 23. *)
Wide0 == Digits(<<1,8,4,4,6,7,4,4,0,7,3,7,0,9,5,5,1,6,1,6>>) \o <<CharColon>>
WideBack21 == Digits(<<1,8,4,4,6,7,4,4,0,7,3,7,0,9,5,5,1,5,9,5>>) \o <<CharColon>>
WideBack30 == Digits(<<1,8,4,4,6,7,4,4,0,7,3,7,0,9,5,5,1,5,8,6>>) \o <<CharColon>>
WideBack23 == Digits(<<1,8,4,4,6,7,4,4,0,7,3,7,0,9,5,5,1,5,9,3>>) \o <<CharColon>>

WideBuffers ==
  { Wide0, WideBack21, WideBack30,
    <<CharL>> \o Wide0 \o <<CharE>>,
    <<CharD, CharZero, CharColon>> \o WideBack23,
    <<CharI>> \o IsizeToString(IsizeMin) \o <<CharE>>,
    <<CharI>> \o IsizeToString(IsizeMax) \o <<CharE>> }

(* a before b in lexicographic order by byte value: they agree on some
   first k bytes, and then a ends and b does not, or a's next byte is the
   smaller one. *)
LexLess(a, b) ==
  \E k \in 0..Len(a) :
    /\ k <= Len(b)
    /\ \A j \in 1..k : a[j] = b[j]
    /\ \/ k = Len(a) /\ k < Len(b)
       \/ k < Len(a) /\ k < Len(b) /\ a[k + 1] < b[k + 1]

(* The keys in strictly ascending lexicographic order. *)
Ascending(keys) ==
  CHOOSE ks \in [1..Cardinality(keys) -> keys] :
    \A i, j \in 1..Cardinality(keys) : i < j => LexLess(ks[i], ks[j])

(* The decimal ASCII digits of a natural number. *)
RECURSIVE Decimal(_)
Decimal(n) ==
  IF n < 10 THEN <<CharZero + n>>
  ELSE Append(Decimal(n \div 10), CharZero + (n % 10))

(* The wire format: the canonical bytes of a value, byte strings verbatim
   and dictionary keys ascending. *)
WireBytestring(v) == Decimal(Len(v)) \o <<CharColon>> \o v

RECURSIVE Wire(_)
RECURSIVE WireElems(_)
RECURSIVE WireEntries(_, _)

WireElems(v) == IF v = <<>> THEN <<>> ELSE Wire(Head(v)) \o WireElems(Tail(v))

WireEntries(map, ks) ==
  IF ks = <<>> THEN <<>>
  ELSE WireBytestring(Head(ks)) \o Wire(map[Head(ks)]) \o WireEntries(map, Tail(ks))

Wire(v) ==
  CASE v.tag = "Integer" -> <<CharI>> \o IsizeToString(v.val) \o <<CharE>>
    [] v.tag = "Bytestring" -> WireBytestring(v.val)
    [] v.tag = "List" -> <<CharL>> \o WireElems(v.val) \o <<CharE>>
    [] v.tag = "Dict" ->
         <<CharD>> \o WireEntries(v.val, Ascending(DOMAIN v.val)) \o <<CharE>>

(* The (key, value) pairs spelled into a dictionary, in any order and with
   repeated keys. *)
PairKeys == {<<>>, <<CharE>>, <<255>>}

PairVals == {Integer(FromNat(42)), Bytestring(<<CharE>>), List(<<>>)}

PairSeqs == SeqsUpTo([key : PairKeys, val : PairVals], MaxPairs)

RECURSIVE WirePairs(_)
WirePairs(ps) ==
  IF ps = <<>> THEN <<>>
  ELSE WireBytestring(Head(ps).key) \o Wire(Head(ps).val) \o WirePairs(Tail(ps))

---------------------------------------------------------------------------
(* The decoder as a machine: one step per parse_bencoded dispatch and per
   iteration of the parse_list and parse_dict loops.  parse_integer and
   parse_bytestring run to their end within the step that calls them. *)

NoResult == [ok |-> FALSE, why |-> "none", val |-> Integer(WZero), idx |-> 0]

NoValue == [tag |-> "None", val |-> <<>>]

(* The locals of a suspended parse_list (v) or parse_dict (map, and the key
   read for the entry whose value is being parsed). *)
ListFrame == [fn |-> "list", v |-> <<>>, map |-> EmptyMap, key |-> <<>>]
DictFrame == [fn |-> "dict", v |-> <<>>, map |-> EmptyMap, key |-> <<>>]

Top(st) == st[Len(st)]
Pop(st) == SubSeq(st, 1, Len(st) - 1)
SetTop(st, f) == [st EXCEPT ![Len(st)] = f]

Init ==
  /\ overflowChecks \in BOOLEAN
  /\ s = <<>>
  /\ idx = 0
  /\ stack = <<>>
  /\ pc = "idle"
  /\ result = NoResult
  /\ value = NoValue
  /\ out = <<>>
  /\ seed = 0
  /\ origin = "none"
  /\ pairs = <<>>
  /\ prev = NoResult

(* parse(s): parse_bencoded(s, 0) is called. *)
Enter(buf) ==
  /\ s' = buf
  /\ idx' = 0
  /\ stack' = <<>>
  /\ pc' = "bencoded"
  /\ result' = NoResult

(* A callee returned r into the call on top of st: a panic unwinds all of
   it; parse returns the value; parse_list pushes it; parse_dict inserts it
   under the key read before. *)
Deliver(st, r) ==
  IF ~r.ok THEN
    /\ pc' = "panic"
    /\ result' = r
    /\ UNCHANGED <<idx, stack>>
  ELSE IF st = <<>> THEN
    /\ pc' = "done"
    /\ result' = r
    /\ idx' = r.idx
    /\ stack' = st
  ELSE IF Top(st).fn = "list" THEN
    /\ pc' = "list"
    /\ idx' = r.idx
    /\ stack' = SetTop(st, [Top(st) EXCEPT !.v = Append(@, r.val)])
    /\ UNCHANGED result
  ELSE
    /\ pc' = "dict"
    /\ idx' = r.idx
    /\ stack' = SetTop(st, [Top(st) EXCEPT
                              !.map = MapInsert(@, Top(st).key, r.val)])
    /\ UNCHANGED result

(* format!("{}", v) for a value v built by the caller. *)
Encode ==
  /\ pc = "idle" /\ origin = "none"
  /\ \E v \in Values, sd \in Seeds :
       /\ value' = v
       /\ seed' = sd
       /\ out' = Display(v, sd)
  /\ origin' = "value"
  /\ UNCHANGED <<overflowChecks, s, idx, stack, pc, result, pairs, prev>>

(* parse of the bytes just rendered. *)
ParseRendered ==
  /\ pc = "idle" /\ origin = "value"
  /\ Enter(out)
  /\ origin' = "rendered"
  /\ UNCHANGED <<overflowChecks, value, out, seed, pairs, prev>>

(* parse of a buffer spelled byte by byte. *)
ParseRaw ==
  /\ pc = "idle" /\ origin = "none"
  /\ \E buf \in RawBuffers \cup WideBuffers : Enter(buf)
  /\ origin' = "raw"
  /\ UNCHANGED <<overflowChecks, value, out, seed, pairs, prev>>

(* parse of the canonical bytes of a value. *)
ParseCanonical ==
  /\ pc = "idle" /\ origin = "none"
  /\ \E v \in Values : Enter(Wire(v)) /\ value' = v
  /\ origin' = "canonical"
  /\ UNCHANGED <<overflowChecks, out, seed, pairs, prev>>

(* parse of a dictionary spelled from a sequence of pairs. *)
ParsePairs ==
  /\ pc = "idle" /\ origin = "none"
  /\ \E ps \in PairSeqs :
       /\ Enter(<<CharD>> \o WirePairs(ps) \o <<CharE>>)
       /\ pairs' = ps
  /\ origin' = "pairs"
  /\ UNCHANGED <<overflowChecks, value, out, seed, prev>>

(* parse_bencoded(s, idx): the dispatch on s[idx]. *)
ParseBencoded ==
  /\ pc = "bencoded"
  /\ IF ~InBounds(s, idx) THEN
       /\ Deliver(stack, Panicked("index out of bounds"))
     ELSE IF At(s, idx) = CharI THEN
       /\ Deliver(stack, ParseInteger(s, idx + 1, overflowChecks))
     ELSE IF At(s, idx) = CharL THEN
       /\ pc' = "list"
       /\ idx' = idx + 1
       /\ stack' = Append(stack, ListFrame)
       /\ UNCHANGED result
     ELSE IF At(s, idx) = CharD THEN
       /\ pc' = "dict"
       /\ idx' = idx + 1
       /\ stack' = Append(stack, DictFrame)
       /\ UNCHANGED result
     ELSE
       /\ Deliver(stack, ParseBytestring(s, idx, overflowChecks))
  /\ UNCHANGED <<overflowChecks, s, value, out, seed, origin, pairs, prev>>

(* The head of the loop of parse_list: 'e' returns the list to the caller,
   anything else calls parse_bencoded at the same cursor. *)
ParseList ==
  /\ pc = "list"
  /\ IF ~InBounds(s, idx) THEN
       /\ Deliver(stack, Panicked("index out of bounds"))
     ELSE IF At(s, idx) = CharE THEN
       /\ Deliver(Pop(stack), Returned(List(Top(stack).v), idx + 1))
     ELSE
       /\ pc' = "bencoded"
       /\ UNCHANGED <<idx, stack, result>>
  /\ UNCHANGED <<overflowChecks, s, value, out, seed, origin, pairs, prev>>

(* The head of the loop of parse_dict: 'e' returns the map to the caller,
   anything else reads the key with parse_bytestring and calls
   parse_bencoded for the value.  parse_bytestring returns nothing but a
   Bytestring, so the `else` of the `if let` is never taken. *)
ParseDict ==
  /\ pc = "dict"
  /\ IF ~InBounds(s, idx) THEN
       /\ Deliver(stack, Panicked("index out of bounds"))
     ELSE IF At(s, idx) = CharE THEN
       /\ Deliver(Pop(stack), Returned(Dict(Top(stack).map), idx + 1))
     ELSE LET r == ParseBytestring(s, idx, overflowChecks)
          IN  IF ~r.ok THEN Deliver(stack, r)
              ELSE /\ pc' = "bencoded"
                   /\ idx' = r.idx
                   /\ stack' = SetTop(stack, [Top(stack) EXCEPT !.key = r.val.val])
                   /\ UNCHANGED result
  /\ UNCHANGED <<overflowChecks, s, value, out, seed, origin, pairs, prev>>

(* format!("{}", parse(s)): the decoded value rendered again. *)
Render ==
  /\ pc = "done" /\ out = <<>>
  /\ origin \in {"raw", "canonical", "pairs"}
  /\ \E sd \in Seeds :
       /\ seed' = sd
       /\ out' = Display(result.val, sd)
  /\ UNCHANGED <<overflowChecks, s, idx, stack, pc, result, value, origin,
                 pairs, prev>>

(* A second parse, of the bytes the first one consumed followed by other
   bytes. *)
ParseExtended ==
  /\ pc = "done" /\ origin = "raw" /\ out = <<>>
  /\ result.idx <= Len(s)
  /\ \E t \in Tails : Enter(SubSeq(s, 1, result.idx) \o t)
  /\ prev' = result
  /\ origin' = "extended"
  /\ UNCHANGED <<overflowChecks, value, out, seed, pairs>>

(* A second parse, of a proper prefix of the bytes the first one consumed. *)
ParseTruncated ==
  /\ pc = "done" /\ origin = "raw" /\ out = <<>>
  /\ result.idx <= Len(s)
  /\ \E j \in 0..(result.idx - 1) : Enter(SubSeq(s, 1, j))
  /\ prev' = result
  /\ origin' = "truncated"
  /\ UNCHANGED <<overflowChecks, value, out, seed, pairs>>

Next ==
  \/ Encode
  \/ ParseRendered
  \/ ParseRaw
  \/ ParseCanonical
  \/ ParsePairs
  \/ ParseBencoded
  \/ ParseList
  \/ ParseDict
  \/ Render
  \/ ParseExtended
  \/ ParseTruncated

Spec == Init /\ [][Next]_vars

---------------------------------------------------------------------------
(* The claims. *)

Finished == pc \in {"done", "panic"}

(* C1: decode(encode(v)) == v: parse of the bytes of the Display rendering
   of a value returns, and returns a value equal to it. *)
DecodeOfEncodeIsIdentity ==
  (origin = "rendered" /\ Finished) => (pc = "done" /\ result.val = value)

(* C2: encode(decode(s)) == s: for the canonical bytes s of a value, parse
   returns and the Display rendering of what it returns is s, byte for
   byte. *)
EncodeOfDecodeIsIdentity ==
  /\ (origin = "canonical" /\ Finished) => pc = "done"
  /\ (origin = "canonical" /\ pc = "done" /\ out # <<>>) => out = s

(* The rendering with every dictionary's entries in ascending lexicographic
   order of the keys, whatever the order the map yields them in. *)
RECURSIVE InKeyOrder(_)
RECURSIVE ElemsInKeyOrder(_)
RECURSIVE EntriesInKeyOrder(_, _)

ElemsInKeyOrder(v) ==
  IF v = <<>> THEN <<>> ELSE InKeyOrder(Head(v)) \o ElemsInKeyOrder(Tail(v))

EntriesInKeyOrder(map, ks) ==
  IF ks = <<>> THEN <<>>
  ELSE DisplayBytestring(Head(ks)) \o InKeyOrder(map[Head(ks)])
         \o EntriesInKeyOrder(map, Tail(ks))

InKeyOrder(v) ==
  CASE v.tag = "List" -> <<CharL>> \o ElemsInKeyOrder(v.val) \o <<CharE>>
    [] v.tag = "Dict" ->
         <<CharD>> \o EntriesInKeyOrder(v.val, Ascending(DOMAIN v.val))
           \o <<CharE>>
    [] OTHER -> Display(v, 0)

(* The value whose rendering out holds. *)
Rendered == IF origin \in {"value", "rendered"} THEN value ELSE result.val

(* "d3:bar4:spam3:fooi42ee" *)
ExampleBytes ==
  <<CharD, 51, CharColon>> \o Bar \o <<52, CharColon>> \o Spam
    \o <<51, CharColon>> \o Foo \o <<CharI, 52, 50, CharE, CharE>>

(* C3: the rendering of a Dict is 'd', the (key)(value) pairs in strictly
   ascending lexicographic byte order of the keys, 'e', whatever order the
   hash map iterates in; {foo: 42, bar: spam} renders as
   d3:bar4:spam3:fooi42ee. *)
DictEncodedInKeyOrder ==
  (out # <<>> /\ Rendered.tag = "Dict") =>
    /\ out = InKeyOrder(Rendered)
    /\ Rendered = ExampleDict => out = ExampleBytes

(* The keys of the entries in the order the map yielded them. *)
IterKeys(map, sd) ==
  LET v == IterOrder(map, DOMAIN map, sd) IN [k \in 1..Len(v) |-> v[k].key]

(* C3's case: a Dict of two or more entries was rendered and the map
   yielded them out of key order. *)
DictRenderedFromUnsortedIteration ==
  /\ origin = "value" /\ out # <<>>
  /\ value.tag = "Dict"
  /\ Cardinality(DOMAIN value.val) >= 2
  /\ IterKeys(value.val, seed) # Ascending(DOMAIN value.val)

(* C4: the rendering of Bytestring(b) is the decimal count of the bytes of
   b, ':', and the bytes of b unchanged: len(digits) + 1 + len(b) bytes. *)
BytestringEncodedVerbatim ==
  (origin = "value" /\ value.tag = "Bytestring") =>
    /\ out = Decimal(Len(value.val)) \o <<CharColon>> \o value.val
    /\ Len(out) = Len(Decimal(Len(value.val))) + 1 + Len(value.val)

(* C5: a decode that returns (v, k) has 0 < k <= len(s), and the decode of
   s[0..k) followed by any other bytes returns the same (v, k). *)
ConsumedPrefixDecides ==
  /\ pc = "done" => (0 < result.idx /\ result.idx <= Len(s))
  /\ (origin = "extended" /\ Finished) => (pc = "done" /\ result = prev)

IsDigit(c) == c >= CharZero /\ c <= CharZero + 9

(* How many digits the buffer starts with. *)
LeadingDigits(buf) ==
  CHOOSE j \in 0..Len(buf) :
    /\ \A k \in 1..j : IsDigit(buf[k])
    /\ j = Len(buf) \/ ~IsDigit(buf[j + 1])

RECURSIVE NatOf(_)
NatOf(digs) ==
  IF digs = <<>> THEN 0
  ELSE NatOf(SubSeq(digs, 1, Len(digs) - 1)) * 10 + (digs[Len(digs)] - CharZero)

RECURSIVE StripZeros(_)
StripZeros(digs) ==
  IF digs # <<>> /\ Head(digs) = CharZero THEN StripZeros(Tail(digs)) ELSE digs

(* The number the digits spell is greater than m, for m below 10000. *)
SpellsMoreThan(digs, m) ==
  LET sig == StripZeros(digs)
  IN  Len(sig) > 4 \/ NatOf(sig) > m

(* The buffer starts with a length prefix that promises more bytes than
   follow its ':'. *)
LengthExceedsBuffer(buf) ==
  LET j == LeadingDigits(buf)
  IN  /\ j >= 1 /\ j < Len(buf)
      /\ buf[j + 1] = CharColon
      /\ SpellsMoreThan(SubSeq(buf, 1, j), Len(buf) - (j + 1))

(* C6: truncated input fails: a decode of a byte string whose length
   prefix exceeds the bytes after its ':' does not return, whatever number
   the digits spell, and neither does a decode of a proper prefix of the
   bytes a successful decode consumed. *)
TruncatedInputFails ==
  /\ LengthExceedsBuffer(s) => pc # "done"
  /\ origin = "truncated" => pc # "done"

(* What the step delivered to the call on top of st, or to parse. *)
DeliveredTo(st, res) ==
  IF st = <<>> THEN res.val
  ELSE IF Top(st).fn = "list" THEN Top(st).v[Len(Top(st).v)]
  ELSE Top(st).map[Top(st).key]

(* C7: where a value is expected, 'i' starts an integer, 'l' a list, 'd' a
   dictionary, a digit a byte string, and every other byte fails the
   decode. *)
LookaheadDispatch ==
  [][ (pc = "bencoded" /\ InBounds(s, idx)) =>
        CASE At(s, idx) = CharI ->
               pc' = "panic" \/ DeliveredTo(stack', result').tag = "Integer"
          [] At(s, idx) = CharL ->
               pc' = "list" /\ stack' = Append(stack, ListFrame)
          [] At(s, idx) = CharD ->
               pc' = "dict" /\ stack' = Append(stack, DictFrame)
          [] IsDigit(At(s, idx)) ->
               pc' = "panic" \/ DeliveredTo(stack', result').tag = "Bytestring"
          [] OTHER -> pc' = "panic" ]_vars

(* An integer with no digit starts at i: "ie" or "i-e". *)
EmptyIntegerAt(buf, i) ==
  /\ InBounds(buf, i + 1) /\ At(buf, i) = CharI
  /\ \/ At(buf, i + 1) = CharE
     \/ InBounds(buf, i + 2) /\ At(buf, i + 1) = CharMinus
          /\ At(buf, i + 2) = CharE

(* C8: an integer with an empty digit field, and a byte string or a
   dictionary key with an empty length field, fail the decode. *)
EmptyFieldFails ==
  [][ /\ (pc = "bencoded" /\ EmptyIntegerAt(s, idx)) => pc' = "panic"
      /\ (pc \in {"bencoded", "dict"} /\ InBounds(s, idx)
            /\ At(s, idx) = CharColon) => pc' = "panic" ]_vars

(* The map from each key of the pairs to the value of its last pair. *)
LastOccurrence(ps) ==
  [k \in {ps[i].key : i \in 1..Len(ps)} |->
     ps[CHOOSE i \in 1..Len(ps) :
          /\ ps[i].key = k
          /\ \A j \in (i + 1)..Len(ps) : ps[j].key # k].val]

(* C9: the decode of a dictionary spelled from any sequence of pairs, in
   any key order and with repeated keys, returns the Dict that maps each
   distinct key to the value of its last occurrence. *)
DictKeepsLastOccurrence ==
  (origin = "pairs" /\ Finished) =>
    /\ pc = "done"
    /\ result.val = Dict(LastOccurrence(pairs))
    /\ result.idx = Len(s)

(* C9's case: a decoded sequence of pairs that repeats a key with another
   value and has a key before a smaller one. *)
DictDecodedFromRepeatedUnsortedKeys ==
  /\ origin = "pairs" /\ pc = "done"
  /\ \E i, j \in 1..Len(pairs) :
       i < j /\ pairs[i].key = pairs[j].key /\ pairs[i].val # pairs[j].val
  /\ \E i, j \in 1..Len(pairs) : i < j /\ LexLess(pairs[j].key, pairs[i].key)

Running == pc \in {"bencoded", "list", "dict"}

(* C10: every parse_* call that returns has advanced the cursor, so every
   step of the decoder but the list loop's own call of parse_bencoded
   moves the cursor forward. *)
CursorAdvances ==
  [][ (Running /\ pc' # "panic" /\ ~(pc = "list" /\ pc' = "bencoded"))
        => idx' > idx ]_vars

====
